---------------------------- MODULE Spec2Model ----------------------------
(* Model of qt_scrcpty.py: the scrcpy command composer                     *)
(* (ScrcpyLauncher.get_scrcpy_command), the option widgets that feed it,   *)
(* the command preview, the scrcpy process handle and the phone-IP         *)
(* detection that writes into the TCP/IP address field.                    *)
(*                                                                         *)
(* Text is modelled by TLA+ strings; Len, SubSeq and \o act on them        *)
(* character by character, so splitting, joining and formatting are        *)
(* computed, not assumed.                                                  *)
EXTENDS Integers, Sequences, FiniteSets, TLC

(***************************************************************************)
(* Bounds of the model.                                                    *)
(***************************************************************************)
\* input events explored from a starting configuration, composer-only runs
MaxComposeEdits == 2
\* input events explored from the window as built, worked examples
MaxExampleEdits == 4
\* input events explored in runs of the whole window
MaxEdits == 1

(***************************************************************************)
(* Widget ranges and initial values (create_scrcpy_tab).                   *)
(***************************************************************************)
FpsMin == 1
FpsMax == 120
FpsDefault == 60
SizeMin == 480
SizeMax == 4000
SizeDefault == 1920
BitrateMin == 1
BitrateMax == 50
BitrateDefault == 8
TimeoutMin == 0
TimeoutMax == 3600
TimeoutDefault == 300

\* the 17 QCheckBox widgets read by get_scrcpy_command
CheckBoxes ==
  { "scrcpy_fullscreen", "scrcpy_stay_awake", "scrcpy_show_touches",
    "scrcpy_disable_screensaver", "scrcpy_borderless", "scrcpy_always_on_top",
    "scrcpy_turn_screen_off", "scrcpy_no_audio", "scrcpy_mouse_control",
    "scrcpy_keyboard_control", "scrcpy_no_control", "scrcpy_max_fps",
    "scrcpy_max_size", "scrcpy_bit_rate", "scrcpy_record", "scrcpy_tcpip",
    "scrcpy_screen_timeout" }

\* items of the four QComboBox widgets (none is editable)
VideoCodecItems == { "default", "h264", "h265", "av1" }
VideoSourceItems == { "display", "camera" }
KeyboardModeItems == { "default", "uhid", "aoa" }
\* the degree sign of the item texts is written "deg"
OrientationItems == { "auto", "0deg", "90deg", "180deg", "270deg" }

ComboItems(k) ==
  CASE k = "scrcpy_video_codec" -> VideoCodecItems
    [] k = "scrcpy_video_source" -> VideoSourceItems
    [] k = "scrcpy_keyboard_mode" -> KeyboardModeItems
    [] k = "scrcpy_orientation" -> OrientationItems

ComboBoxes ==
  { "scrcpy_video_codec", "scrcpy_video_source", "scrcpy_keyboard_mode",
    "scrcpy_orientation" }

\* the values a QSpinBox is driven to: both ends of its range and its default
SpinValues(k) ==
  CASE k = "scrcpy_fps_value" -> { FpsMin, FpsDefault, FpsMax }
    [] k = "scrcpy_size_value" -> { SizeMin, SizeDefault, SizeMax }
    [] k = "scrcpy_bitrate_value" -> { BitrateMin, BitrateDefault, BitrateMax }
    [] k = "scrcpy_timeout_value" -> { TimeoutMin, TimeoutDefault, TimeoutMax }

SpinBoxes ==
  { "scrcpy_fps_value", "scrcpy_size_value", "scrcpy_bitrate_value",
    "scrcpy_timeout_value" }

\* texts typed into the three QLineEdit widgets
RecordFilenames == { "", "recording.mp4", "--tcpip=f" }
TcpipAddresses == { "", "192.168.1.55:5555", "h:1" }
CustomParams ==
  { "", " ", "--foo bar", "  --foo \t bar ", "--tcpip=x", "--keyboard=uhid",
    "--capture-orientation=@0 -b", "-m 1 -K" }

LineEditTexts(k) ==
  CASE k = "scrcpy_record_filename" -> RecordFilenames
    [] k = "scrcpy_tcpip_address" -> TcpipAddresses
    [] k = "scrcpy_custom_params" -> CustomParams

LineEdits ==
  { "scrcpy_record_filename", "scrcpy_tcpip_address", "scrcpy_custom_params" }

\* the option widgets as create_scrcpy_tab leaves them
InitialWidgets ==
  [ scrcpy_fullscreen |-> FALSE, scrcpy_stay_awake |-> FALSE,
    scrcpy_show_touches |-> FALSE, scrcpy_disable_screensaver |-> FALSE,
    scrcpy_borderless |-> FALSE, scrcpy_always_on_top |-> FALSE,
    scrcpy_turn_screen_off |-> FALSE, scrcpy_no_audio |-> FALSE,
    scrcpy_mouse_control |-> TRUE, scrcpy_keyboard_control |-> TRUE,
    scrcpy_no_control |-> FALSE, scrcpy_max_fps |-> FALSE,
    scrcpy_max_size |-> FALSE, scrcpy_bit_rate |-> FALSE,
    scrcpy_record |-> FALSE, scrcpy_tcpip |-> FALSE,
    scrcpy_screen_timeout |-> FALSE,
    scrcpy_video_codec |-> "default", scrcpy_video_source |-> "display",
    scrcpy_keyboard_mode |-> "default", scrcpy_orientation |-> "auto",
    scrcpy_fps_value |-> FpsDefault, scrcpy_size_value |-> SizeDefault,
    scrcpy_bitrate_value |-> BitrateDefault,
    scrcpy_timeout_value |-> TimeoutDefault,
    scrcpy_record_filename |-> "recording.mp4", scrcpy_tcpip_address |-> "",
    scrcpy_custom_params |-> "" ]

(***************************************************************************)
(* State of the window.                                                    *)
(***************************************************************************)
VARIABLES
  widgets,               \* the 28 option widgets of the scrcpy tab
  command,               \* the list update_scrcpy_command last composed
  scrcpy_command_label,  \* the preview text
  ui,                    \* process handles, buttons, status and IP labels
  qprocesses,            \* the QProcess objects that are alive
  ip_detector,           \* the PhoneIPDetector thread
  detector_run,          \* how far the thread's run has come, and its calls
  ip_signals,            \* signals of detector threads queued for the window
  edits                  \* input events so far

(***************************************************************************)
(* Python text primitives used by the composer.                            *)
(***************************************************************************)
\* s[i:i+1], the empty text outside s
CharAt(s, i) == IF i \in 1..Len(s) THEN SubSeq(s, i, i) ELSE ""

\* whitespace as str.split() with no argument sees it in a one-line text
IsSpace(ch) == ch \in { " ", "\t" }

\* str(n) for n >= 0
RECURSIVE str(_)
str(n) ==
  IF n < 10 THEN CharAt("0123456789", n + 1)
  ELSE str(n \div 10) \o CharAt("0123456789", (n % 10) + 1)

\* text.split(): scan left to right, cut at every run of whitespace
RECURSIVE split_scan(_, _, _, _)
split_scan(s, i, word, words) ==
  IF i > Len(s)
    THEN IF word = "" THEN words ELSE Append(words, word)
    ELSE IF IsSpace(CharAt(s, i))
           THEN split_scan(s, i + 1, "",
                           IF word = "" THEN words ELSE Append(words, word))
           ELSE split_scan(s, i + 1, word \o CharAt(s, i), words)

\* text.split(' '): cut at every blank, empty words kept
RECURSIVE split_at_blanks(_, _, _, _)
split_at_blanks(s, i, word, words) ==
  IF i > Len(s)
    THEN Append(words, word)
    ELSE IF IsSpace(CharAt(s, i))
           THEN split_at_blanks(s, i + 1, "", Append(words, word))
           ELSE split_at_blanks(s, i + 1, word \o CharAt(s, i), words)

split_keeping_empty(s) == split_at_blanks(s, 1, "", <<>>)

split(s) == split_scan(s, 1, "", <<>>)

\* ' '.join(tokens)
RECURSIVE join(_)
join(tokens) ==
  IF tokens = <<>> THEN ""
  ELSE IF Len(tokens) = 1 THEN tokens[1]
  ELSE tokens[1] \o " " \o join(Tail(tokens))


(***************************************************************************)
(* ScrcpyLauncher.get_scrcpy_command, block by block; w is the state of    *)
(* the option widgets.                                                     *)
(***************************************************************************)
\* the TCP/IP block without the test of the address text
cmd_tcpip_any_address(w) ==
  IF w.scrcpy_tcpip THEN << "--tcpip=" \o w.scrcpy_tcpip_address >>
  ELSE << >>

\* TCP/IP connection
cmd_tcpip(w) ==
  IF w.scrcpy_tcpip /\ w.scrcpy_tcpip_address # ""
    THEN << "--tcpip=" \o w.scrcpy_tcpip_address >>
    ELSE << >>

\* the video codec block writing flag and value as one token
cmd_video_codec_one_token(w) ==
  IF w.scrcpy_video_codec # "default"
    THEN << "--video-codec=" \o w.scrcpy_video_codec >>
    ELSE << >>

\* Video codec
cmd_video_codec(w) ==
  IF w.scrcpy_video_codec # "default"
    THEN << "--video-codec", w.scrcpy_video_codec >>
    ELSE << >>

\* Video source
cmd_video_source(w) ==
  IF w.scrcpy_video_source = "camera" THEN << "--video-source=camera" >>
  ELSE << >>

\* the control block with the keyboard mode written outside the test of
\* keyboard control
cmd_control_mode_always(w) ==
  (IF w.scrcpy_mouse_control THEN << "-M" >> ELSE << >>)
  \o (IF w.scrcpy_keyboard_control THEN << "-K" >> ELSE << >>)
  \o (IF w.scrcpy_keyboard_mode # "default"
        THEN << "--keyboard=" \o w.scrcpy_keyboard_mode >>
        ELSE << >>)
  \o (IF w.scrcpy_no_control THEN << "-n" >> ELSE << >>)

\* the control block with no-control excluding mouse and keyboard control
cmd_control_exclusive(w) ==
  IF w.scrcpy_no_control THEN << "-n" >>
  ELSE (IF w.scrcpy_mouse_control THEN << "-M" >> ELSE << >>)
       \o (IF w.scrcpy_keyboard_control
             THEN << "-K" >>
                  \o (IF w.scrcpy_keyboard_mode # "default"
                        THEN << "--keyboard=" \o w.scrcpy_keyboard_mode >>
                        ELSE << >>)
             ELSE << >>)

\* Control options
cmd_control(w) ==
  (IF w.scrcpy_mouse_control THEN << "-M" >> ELSE << >>)
  \o (IF w.scrcpy_keyboard_control
        THEN << "-K" >>
             \o (IF w.scrcpy_keyboard_mode # "default"
                   THEN << "--keyboard=" \o w.scrcpy_keyboard_mode >>
                   ELSE << >>)
        ELSE << >>)
  \o (IF w.scrcpy_no_control THEN << "-n" >> ELSE << >>)

\* Resolution setting
cmd_max_size(w) ==
  IF w.scrcpy_max_size THEN << "-m", str(w.scrcpy_size_value) >> ELSE << >>

\* FPS limitation
cmd_max_fps(w) ==
  IF w.scrcpy_max_fps THEN << "--max-fps", str(w.scrcpy_fps_value) >>
  ELSE << >>

\* the bitrate block without the unit letter
cmd_bit_rate_no_unit(w) ==
  IF w.scrcpy_bit_rate THEN << "-b", str(w.scrcpy_bitrate_value) >>
  ELSE << >>

\* Bitrate
cmd_bit_rate(w) ==
  IF w.scrcpy_bit_rate THEN << "-b", str(w.scrcpy_bitrate_value) \o "M" >>
  ELSE << >>

\* Recording
cmd_record(w) ==
  IF w.scrcpy_record /\ w.scrcpy_record_filename # ""
    THEN << "--record", w.scrcpy_record_filename >>
    ELSE << >>

\* Screen timeout
cmd_screen_timeout(w) ==
  IF w.scrcpy_screen_timeout
    THEN << "--screen-off-timeout", str(w.scrcpy_timeout_value) >>
    ELSE << >>

\* the dict literal with the values of two keys exchanged
orientation_map_exchanged ==
  [ k \in { "0deg", "90deg", "180deg", "270deg" } |->
      CASE k = "0deg" -> "@0"
        [] k = "90deg" -> "@270"
        [] k = "180deg" -> "@180"
        [] k = "270deg" -> "@90" ]

\* the dict literal of the orientation block; a lookup outside its keys
\* raises KeyError
orientation_map ==
  [ k \in { "0deg", "90deg", "180deg", "270deg" } |->
      CASE k = "0deg" -> "@0"
        [] k = "90deg" -> "@90"
        [] k = "180deg" -> "@180"
        [] k = "270deg" -> "@270" ]

\* Orientation
cmd_orientation(w) ==
  IF w.scrcpy_orientation # "auto"
    THEN << "--capture-orientation=" \o orientation_map[w.scrcpy_orientation] >>
    ELSE << >>

\* whether get_scrcpy_command raises instead of returning
get_scrcpy_command_raises(w) ==
  /\ w.scrcpy_orientation # "auto"
  /\ w.scrcpy_orientation \notin DOMAIN orientation_map

\* Display options
cmd_display(w) ==
  (IF w.scrcpy_fullscreen THEN << "-f" >> ELSE << >>)
  \o (IF w.scrcpy_stay_awake THEN << "-w" >> ELSE << >>)
  \o (IF w.scrcpy_show_touches THEN << "-t" >> ELSE << >>)
  \o (IF w.scrcpy_disable_screensaver THEN << "-S" >> ELSE << >>)
  \o (IF w.scrcpy_borderless THEN << "-b" >> ELSE << >>)
  \o (IF w.scrcpy_always_on_top THEN << "-T" >> ELSE << >>)
  \o (IF w.scrcpy_turn_screen_off THEN << "-o" >> ELSE << >>)
  \o (IF w.scrcpy_no_audio THEN << "--no-audio" >> ELSE << >>)

\* Custom parameters
cmd_custom_params(w) ==
  IF w.scrcpy_custom_params # "" THEN split(w.scrcpy_custom_params)
  ELSE << >>

\* the composer with the FPS block ahead of the resolution block
get_scrcpy_command_fps_first(w) ==
  << "scrcpy" >>
  \o cmd_tcpip(w)
  \o cmd_video_codec(w)
  \o cmd_video_source(w)
  \o cmd_control(w)
  \o cmd_max_fps(w)
  \o cmd_max_size(w)
  \o cmd_bit_rate(w)
  \o cmd_record(w)
  \o cmd_screen_timeout(w)
  \o cmd_orientation(w)
  \o cmd_display(w)
  \o cmd_custom_params(w)

\* the composer starting from an empty list
get_scrcpy_command_no_program(w) ==
  cmd_tcpip(w)
  \o cmd_video_codec(w)
  \o cmd_video_source(w)
  \o cmd_control(w)
  \o cmd_max_size(w)
  \o cmd_max_fps(w)
  \o cmd_bit_rate(w)
  \o cmd_record(w)
  \o cmd_screen_timeout(w)
  \o cmd_orientation(w)
  \o cmd_display(w)
  \o cmd_custom_params(w)

\* the composer reading the window besides the option widgets: the TCP/IP
\* block is left out while a detection is shown as under way
get_scrcpy_command_reading_window(w) ==
  << "scrcpy" >>
  \o (IF ui.ip_label = "Phone IP: Detecting..." THEN << >> ELSE cmd_tcpip(w))
  \o cmd_video_codec(w)
  \o cmd_video_source(w)
  \o cmd_control(w)
  \o cmd_max_size(w)
  \o cmd_max_fps(w)
  \o cmd_bit_rate(w)
  \o cmd_record(w)
  \o cmd_screen_timeout(w)
  \o cmd_orientation(w)
  \o cmd_display(w)
  \o cmd_custom_params(w)

get_scrcpy_command(w) ==
  << "scrcpy" >>
  \o cmd_tcpip(w)
  \o cmd_video_codec(w)
  \o cmd_video_source(w)
  \o cmd_control(w)
  \o cmd_max_size(w)
  \o cmd_max_fps(w)
  \o cmd_bit_rate(w)
  \o cmd_record(w)
  \o cmd_screen_timeout(w)
  \o cmd_orientation(w)
  \o cmd_display(w)
  \o cmd_custom_params(w)

vars ==
  << widgets, command, scrcpy_command_label, ui, qprocesses, ip_detector,
     detector_run, ip_signals, edits >>

windowVars == << ui, qprocesses, ip_detector, detector_run, ip_signals >>

None == 0

\* update_scrcpy_command that leaves the label as it was
update_scrcpy_command_keeping_label(w) ==
  /\ command' = get_scrcpy_command(w)
  /\ UNCHANGED scrcpy_command_label

\* update_scrcpy_command, run by every change signal of an option widget
update_scrcpy_command(w) ==
  /\ command' = get_scrcpy_command(w)
  /\ scrcpy_command_label' = "Command: " \o join(get_scrcpy_command(w))

\* __init__ and init_ui, but for the option widgets
InitWindow ==
  /\ ui = [ scrcpy_process |-> None, droidcam_process |-> None,
            scrcpy_start_button |-> TRUE, scrcpy_stop_button |-> FALSE,
            droidcam_start_button |-> TRUE, droidcam_stop_button |-> FALSE,
            status_label |-> "Ready to launch applications",
            ip_label |-> "Phone IP: Not detected",
            close_accepted |-> FALSE ]
  /\ qprocesses = << >>
  /\ ip_detector = "None"
  /\ detector_run = [ pc |-> "return", calls |-> << >>, emitted |-> << >>,
                      interruption_requested |-> FALSE ]
  /\ ip_signals = << >>

\* __init__: the widgets as built, then connect_scrcpy_checkboxes runs the
\* first update_scrcpy_command
Init ==
  /\ InitWindow
  /\ widgets = InitialWidgets
  /\ command = get_scrcpy_command(InitialWidgets)
  /\ scrcpy_command_label = "Command: " \o join(get_scrcpy_command(InitialWidgets))
  /\ edits = 0

\* a click on a QCheckBox: stateChanged
ToggleCheckBox(k, limit) ==
  /\ edits < limit
  /\ widgets' = [widgets EXCEPT ![k] = ~ widgets[k]]
  /\ update_scrcpy_command(widgets')
  /\ edits' = edits + 1
  /\ UNCHANGED windowVars

\* a new selection in a QComboBox: currentTextChanged
SelectComboItem(k, item, limit) ==
  /\ edits < limit
  /\ item # widgets[k]
  /\ widgets' = [widgets EXCEPT ![k] = item]
  /\ update_scrcpy_command(widgets')
  /\ edits' = edits + 1
  /\ UNCHANGED windowVars

\* a new value in a QSpinBox: valueChanged
SetSpinValue(k, v, limit) ==
  /\ edits < limit
  /\ v # widgets[k]
  /\ widgets' = [widgets EXCEPT ![k] = v]
  /\ update_scrcpy_command(widgets')
  /\ edits' = edits + 1
  /\ UNCHANGED windowVars

\* a new text in a QLineEdit: textChanged
EditLineText(k, text, limit) ==
  /\ edits < limit
  /\ text # widgets[k]
  /\ widgets' = [widgets EXCEPT ![k] = text]
  /\ update_scrcpy_command(widgets')
  /\ edits' = edits + 1
  /\ UNCHANGED windowVars

(***************************************************************************)
(* The composer alone: it is started from the window as built, from the    *)
(* window with every option switched on and from the window with every     *)
(* option switched off, and driven by input events.                        *)
(***************************************************************************)
AllChecked ==
  [ k \in DOMAIN InitialWidgets |->
      CASE k \in CheckBoxes -> TRUE
        [] k = "scrcpy_video_codec" -> "h265"
        [] k = "scrcpy_video_source" -> "camera"
        [] k = "scrcpy_keyboard_mode" -> "aoa"
        [] k = "scrcpy_orientation" -> "270deg"
        [] k = "scrcpy_tcpip_address" -> "192.168.1.55:5555"
        [] k = "scrcpy_custom_params" -> "--foo bar"
        [] OTHER -> InitialWidgets[k] ]

NoneChecked ==
  [ k \in DOMAIN InitialWidgets |->
      IF k \in CheckBoxes THEN FALSE ELSE InitialWidgets[k] ]

ComposeInputs == { InitialWidgets, AllChecked, NoneChecked }

InitCompose ==
  /\ widgets \in ComposeInputs
  /\ InitWindow
  /\ command = get_scrcpy_command(widgets)
  /\ scrcpy_command_label = "Command: " \o join(get_scrcpy_command(widgets))
  /\ edits = 0

NextCompose ==
  \/ \E k \in CheckBoxes : ToggleCheckBox(k, MaxComposeEdits)
  \/ \E k \in ComboBoxes : \E item \in ComboItems(k) :
       SelectComboItem(k, item, MaxComposeEdits)
  \/ \E k \in SpinBoxes : \E v \in SpinValues(k) :
       SetSpinValue(k, v, MaxComposeEdits)
  \/ \E k \in LineEdits : \E text \in LineEditTexts(k) :
       EditLineText(k, text, MaxComposeEdits)

SpecCompose == InitCompose /\ [][NextCompose]_vars


(***************************************************************************)
(* The worked examples: the window as built, driven through the widgets    *)
(* the two examples of the specification set.                              *)
(***************************************************************************)
ExampleCheckBoxes ==
  { "scrcpy_fullscreen", "scrcpy_mouse_control", "scrcpy_keyboard_control",
    "scrcpy_bit_rate", "scrcpy_record", "scrcpy_tcpip" }

NextExamples ==
  \/ \E k \in ExampleCheckBoxes : ToggleCheckBox(k, MaxExampleEdits)
  \/ \E k \in ComboBoxes : \E item \in ComboItems(k) :
       SelectComboItem(k, item, MaxExampleEdits)
  \/ \E v \in SpinValues("scrcpy_bitrate_value") :
       SetSpinValue("scrcpy_bitrate_value", v, MaxExampleEdits)
  \/ \E text \in CustomParams :
       EditLineText("scrcpy_custom_params", text, MaxExampleEdits)

SpecExamples == Init /\ [][NextExamples]_vars

(***************************************************************************)
(* The whole window: process handles and phone-IP detection.               *)
(***************************************************************************)
\* QProcess objects alive at one time
MaxProcesses == 1
\* signals of detector threads waiting for the window
MaxProbes == 1

\* a QProcess whose process has ended: no signal comes from it any more and
\* nothing of it is read again
Ended ==
  [ tool |-> "", program |-> "", arguments |-> << >>,
    state |-> "NotRunning", composed_from |-> << >> ]

\* the place of a new QProcess in the table: that of an ended one, or the end
NewProcess ==
  IF \E p \in 1..Len(qprocesses) : qprocesses[p] = Ended
    THEN CHOOSE p \in 1..Len(qprocesses) :
           /\ qprocesses[p] = Ended
           /\ \A q \in 1..(p - 1) : qprocesses[q] # Ended
    ELSE Len(qprocesses) + 1

\* the table with QProcess process created
Created(process) ==
  IF NewProcess <= Len(qprocesses)
    THEN [ qprocesses EXCEPT ![NewProcess] = process ]
    ELSE Append(qprocesses, process)

\* update_status: the status text for the handles held in window state st
update_status(st) ==
  IF st.scrcpy_process # None /\ st.droidcam_process # None
    THEN "Both Scrcpy and DroidCam are running"
  ELSE IF st.scrcpy_process # None THEN "Scrcpy is running..."
  ELSE IF st.droidcam_process # None THEN "DroidCam is running..."
  ELSE "Ready to launch applications"

\* on_scrcpy_finished: update_status runs before the handle is cleared
on_scrcpy_finished(st) ==
  [ st EXCEPT !.scrcpy_start_button = TRUE,
              !.scrcpy_stop_button = FALSE,
              !.status_label = update_status(st),
              !.scrcpy_process = None ]

\* on_scrcpy_error: an error dialog, then on_scrcpy_finished
on_scrcpy_error(st) == on_scrcpy_finished(st)

on_droidcam_finished(st) ==
  [ st EXCEPT !.droidcam_start_button = TRUE,
              !.droidcam_stop_button = FALSE,
              !.status_label = update_status(st),
              !.droidcam_process = None ]

on_droidcam_error(st) == on_droidcam_finished(st)

\* the slots a QProcess of a tool is connected to
on_finished(tool, st) ==
  IF tool = "scrcpy" THEN on_scrcpy_finished(st) ELSE on_droidcam_finished(st)

on_error(tool, st) ==
  IF tool = "scrcpy" THEN on_scrcpy_error(st) ELSE on_droidcam_error(st)

\* start_scrcpy, on a click of the start button; available is the outcome of
\* check_scrcpy_available.  QProcess.start() either leaves a process starting
\* or fails at once, and then emits errorOccurred(FailedToStart) before it
\* returns: on_scrcpy_error runs inside start(), the lines that follow start()
\* run after it.
start_scrcpy(limit) ==
  /\ ui.scrcpy_start_button
  /\ NewProcess <= limit
  /\ \E available \in BOOLEAN, failed_in_start \in BOOLEAN :
       IF ~ available
         THEN UNCHANGED << ui, qprocesses >>
         ELSE LET cmd == get_scrcpy_command(widgets)
                  created == [ ui EXCEPT !.scrcpy_process = NewProcess ]
                  started == IF failed_in_start THEN on_scrcpy_error(created)
                                                ELSE created
              IN  /\ qprocesses' =
                       IF failed_in_start
                         THEN qprocesses
                         ELSE Created([ tool |-> "scrcpy", program |-> cmd[1],
                                        arguments |-> Tail(cmd),
                                        state |-> "Running",
                                        composed_from |-> widgets ])
                  /\ ui' = [ started EXCEPT
                               !.scrcpy_start_button = FALSE,
                               !.scrcpy_stop_button = TRUE,
                               !.status_label = "Scrcpy is running..." ]
  /\ UNCHANGED << widgets, command, scrcpy_command_label, ip_detector,
                  detector_run, ip_signals, edits >>

\* re.match(r'\d+\.\d+\.\d+\.\d+', s): the end of the run of digits from i
RECURSIVE digits_end(_, _)
digits_end(s, i) ==
  IF i <= Len(s) /\ CharAt(s, i) \in { "0", "1", "2", "3", "4", "5", "6", "7", "8", "9" }
    THEN digits_end(s, i + 1)
    ELSE i

re_match_ipv4(s) ==
  LET a == digits_end(s, 1)
      b == digits_end(s, a + 1)
      c == digits_end(s, b + 1)
      d == digits_end(s, c + 1)
  IN  /\ a > 1 /\ CharAt(s, a) = "."
      /\ b > a + 1 /\ CharAt(s, b) = "."
      /\ c > b + 1 /\ CharAt(s, c) = "."
      /\ d > c + 1

\* the address start_droidcam offers in its dialog
dialog_text ==
  LET label == ui.ip_label
      ip_text == SubSeq(label, Len("Phone IP: ") + 1, Len(label))
  IN  IF label # "Phone IP: Not detected" /\ re_match_ipv4(ip_text)
        THEN ip_text
        ELSE "192.168.1.100"

\* start_droidcam, on a click of the start button; available is the outcome
\* of check_droidcam_available, ok and ip_address what the dialog returns,
\* failed_in_start as in start_scrcpy
start_droidcam(limit) ==
  /\ ui.droidcam_start_button
  /\ NewProcess <= limit
  /\ \E available \in BOOLEAN, ok \in BOOLEAN, failed_in_start \in BOOLEAN :
     \E ip_address \in { "", dialog_text } :
       IF ~ available \/ ~ ok \/ ip_address = ""
         THEN UNCHANGED << ui, qprocesses >>
         ELSE LET created == [ ui EXCEPT !.droidcam_process = NewProcess ]
                  started == IF failed_in_start THEN on_droidcam_error(created)
                                                ELSE created
              IN  /\ qprocesses' =
                       IF failed_in_start
                         THEN qprocesses
                         ELSE Created([ tool |-> "droidcam",
                                        program |-> "droidcam-cli",
                                        arguments |-> << ip_address, "4747" >>,
                                        state |-> "Running",
                                        composed_from |-> << >> ])
                  /\ ui' = [ started EXCEPT
                               !.droidcam_start_button = FALSE,
                               !.droidcam_stop_button = TRUE,
                               !.status_label = "DroidCam is running..." ]
  /\ UNCHANGED << widgets, command, scrcpy_command_label, ip_detector,
                  detector_run, ip_signals, edits >>

\* stop_scrcpy, on a click of the stop button: terminate, wait 3 seconds,
\* kill if the process has not finished, then on_scrcpy_finished.  A process
\* that finishes within the wait emits finished inside waitForFinished.
stop_scrcpy ==
  /\ ui.scrcpy_stop_button
  /\ IF ui.scrcpy_process = None
       THEN UNCHANGED << ui, qprocesses >>
       ELSE \E in_time \in BOOLEAN :
              LET p == ui.scrcpy_process
              IN  IF in_time /\ qprocesses[p].state = "Running"
                    THEN /\ qprocesses' =
                              [qprocesses EXCEPT ![p] = Ended]
                         /\ ui' = on_scrcpy_finished(on_scrcpy_finished(ui))
                    ELSE /\ qprocesses' =
                              [qprocesses EXCEPT ![p].state =
                                 IF @ = "Running" THEN "Killed" ELSE @]
                         /\ ui' = on_scrcpy_finished(ui)
  /\ UNCHANGED << widgets, command, scrcpy_command_label, ip_detector,
                  detector_run, ip_signals, edits >>

stop_droidcam ==
  /\ ui.droidcam_stop_button
  /\ IF ui.droidcam_process = None
       THEN UNCHANGED << ui, qprocesses >>
       ELSE \E in_time \in BOOLEAN :
              LET p == ui.droidcam_process
              IN  IF in_time /\ qprocesses[p].state = "Running"
                    THEN /\ qprocesses' =
                              [qprocesses EXCEPT ![p] = Ended]
                         /\ ui' = on_droidcam_finished(on_droidcam_finished(ui))
                    ELSE /\ qprocesses' =
                              [qprocesses EXCEPT ![p].state =
                                 IF @ = "Running" THEN "Killed" ELSE @]
                         /\ ui' = on_droidcam_finished(ui)
  /\ UNCHANGED << widgets, command, scrcpy_command_label, ip_detector,
                  detector_run, ip_signals, edits >>

\* the body of stop_scrcpy and of stop_droidcam run on the window state and
\* the processes of now: terminate, wait, kill, the finished slot
stopped(tool, now, in_time) ==
  LET p == IF tool = "scrcpy" THEN now.ui.scrcpy_process
                              ELSE now.ui.droidcam_process
  IN  IF p = None
        THEN now
      ELSE IF in_time /\ now.qprocesses[p].state = "Running"
        THEN [ ui |-> on_finished(tool, on_finished(tool, now.ui)),
               qprocesses |-> [ now.qprocesses EXCEPT ![p] = Ended ] ]
        ELSE [ ui |-> on_finished(tool, now.ui),
               qprocesses |-> [ now.qprocesses EXCEPT ![p].state =
                                  IF @ = "Running" THEN "Killed" ELSE @ ] ]

\* closeEvent, when the window is closed: stop_scrcpy if a scrcpy handle is
\* held, stop_droidcam if a DroidCam handle is held, then event.accept()
closeEvent ==
  /\ ~ ui.close_accepted
  /\ \E scrcpy_in_time \in BOOLEAN, droidcam_in_time \in BOOLEAN :
       LET scrcpy_stopped ==
             stopped("scrcpy", [ ui |-> ui, qprocesses |-> qprocesses ],
                     scrcpy_in_time)
           after == stopped("droidcam", scrcpy_stopped, droidcam_in_time)
       IN  /\ ui' = [ after.ui EXCEPT !.close_accepted = TRUE ]
           /\ qprocesses' = after.qprocesses
  /\ UNCHANGED << widgets, command, scrcpy_command_label, ip_detector,
                  detector_run, ip_signals, edits >>

\* a QProcess emits finished: the process ended (by itself or killed)
ProcessFinished(p) ==
  /\ qprocesses[p].state \in { "Running", "Killed" }
  /\ qprocesses' = [qprocesses EXCEPT ![p] = Ended]
  /\ ui' = on_finished(qprocesses[p].tool, ui)
  /\ UNCHANGED << widgets, command, scrcpy_command_label, ip_detector,
                  detector_run, ip_signals, edits >>

\* a QProcess emits errorOccurred: FailedToStart and Crashed end the process
\* (Crashed is followed by finished), a read or write error does not
ProcessErrorOccurred(p, error) ==
  /\ qprocesses[p].state \in { "Running", "Killed" }
  /\ qprocesses[p].state = "Killed" => error = "Crashed"
  /\ qprocesses' =
       [qprocesses EXCEPT ![p] =
          IF error \in { "FailedToStart", "Crashed" } THEN Ended ELSE @]
  /\ ui' = IF error = "Crashed"
             THEN on_finished(qprocesses[p].tool,
                              on_error(qprocesses[p].tool, ui))
             ELSE on_error(qprocesses[p].tool, ui)
  /\ UNCHANGED << widgets, command, scrcpy_command_label, ip_detector,
                  detector_run, ip_signals, edits >>

ProcessErrors == { "FailedToStart", "Crashed", "WriteError", "ReadError" }

(***************************************************************************)
(* PhoneIPDetector: the thread that asks adb for the phone's address.      *)
(***************************************************************************)
\* whitespace as str.strip() and \s see it
IsWhite(ch) == ch \in { " ", "\t", "\n", "\r" }

RECURSIVE lstrip(_)
lstrip(s) ==
  IF s # "" /\ IsWhite(CharAt(s, 1)) THEN lstrip(SubSeq(s, 2, Len(s))) ELSE s

RECURSIVE rstrip(_)
rstrip(s) ==
  IF s # "" /\ IsWhite(CharAt(s, Len(s)))
    THEN rstrip(SubSeq(s, 1, Len(s) - 1))
    ELSE s

\* text.strip()
strip(s) == rstrip(lstrip(s))

\* text.split('\n'): cut at every newline, empty lines kept
RECURSIVE split_newline_scan(_, _, _, _)
split_newline_scan(s, i, line, lines) ==
  IF i > Len(s) THEN Append(lines, line)
  ELSE IF CharAt(s, i) = "\n"
         THEN split_newline_scan(s, i + 1, "", Append(lines, line))
         ELSE split_newline_scan(s, i + 1, line \o CharAt(s, i), lines)

split_newline(s) == split_newline_scan(s, 1, "", << >>)

\* sub in text
in_text(sub, text) ==
  \E i \in 1..(Len(text) - Len(sub) + 1) :
    SubSeq(text, i, i + Len(sub) - 1) = sub

\* \s+ from position i: the position after the run of whitespace
RECURSIVE white_end(_, _)
white_end(s, i) ==
  IF i <= Len(s) /\ IsWhite(CharAt(s, i)) THEN white_end(s, i + 1) ELSE i

\* \d+\.\d+\.\d+\.\d+ from position i: the position after the match, 0 when
\* there is none
dotted_quad_end(s, i) ==
  LET a == digits_end(s, i)
      b == digits_end(s, a + 1)
      c == digits_end(s, b + 1)
      d == digits_end(s, c + 1)
  IN  IF /\ a > i /\ CharAt(s, a) = "."
         /\ b > a + 1 /\ CharAt(s, b) = "."
         /\ c > b + 1 /\ CharAt(s, c) = "."
         /\ d > c + 1
        THEN d
        ELSE 0

\* where the dotted quad of a match of prefix, white space (if spaced) and
\* dotted quad starting at position i begins, 0 when there is no such match
quad_start(prefix, spaced, s, i) ==
  LET j == i + Len(prefix)
      k == IF spaced THEN white_end(s, j) ELSE j
  IN  IF /\ j - 1 <= Len(s)
         /\ SubSeq(s, i, j - 1) = prefix
         /\ spaced => k > j
         /\ dotted_quad_end(s, k) > 0
        THEN k
        ELSE 0

\* re.search: group 1 of the leftmost match, as a list of zero or one text
re_search(prefix, spaced, s) ==
  LET at == { i \in 1..Len(s) : quad_start(prefix, spaced, s, i) > 0 }
  IN  IF at = {} THEN << >>
      ELSE LET i == CHOOSE x \in at : \A y \in at : x <= y
               k == quad_start(prefix, spaced, s, i)
           IN  << SubSeq(s, k, dotted_quad_end(s, k) - 1) >>

\* what subprocess.run gives: a CompletedProcess, or an exception
CompletedProcess(returncode, stdout) ==
  [ raises |-> "", returncode |-> returncode, stdout |-> stdout ]

Raises(exception) ==
  [ raises |-> exception, returncode |-> 0, stdout |-> "" ]

\* the four invocations of run, in the order of the code
Commands == << "devices", "ip_addr", "ifconfig", "getprop" >>

argv(cmd) ==
  CASE cmd = "devices" -> << "adb", "devices" >>
    [] cmd = "ip_addr" -> << "adb", "shell", "ip", "addr", "show", "wlan0" >>
    [] cmd = "ifconfig" -> << "adb", "shell", "ifconfig", "wlan0" >>
    [] cmd = "getprop"
         -> << "adb", "shell", "getprop", "dhcp.wlan0.ipaddress" >>

\* what a block of run does with the result of its invocation: the signals
\* it emits and where run goes on ("return" when it returns)
Emit(name, arg) == [ name |-> name, arg |-> arg ]

Returns(signal) == [ pc |-> "return", emit |-> << signal >> ]

GoesOn(cmd) == [ pc |-> cmd, emit |-> << >> ]

\* the device-list block without the test of the exit code
run_devices_ignoring_exit(result) ==
  LET lines == split_newline(strip(result.stdout))
  IN  IF \/ Len(lines) <= 1
         \/ ~ \E i \in 2..Len(lines) : in_text("device", lines[i])
        THEN Returns(Emit("error", "No Android device connected via USB."))
        ELSE GoesOn("ip_addr")

\* Check if adb is available, check if any device is connected
run_devices(result) ==
  IF result.returncode # 0
    THEN Returns(Emit("error",
                      "ADB not found. Make sure it's installed and in PATH."))
  ELSE LET lines == split_newline(strip(result.stdout))
       IN  IF \/ Len(lines) <= 1
              \/ ~ \E i \in 2..Len(lines) : in_text("device", lines[i])
             THEN Returns(Emit("error", "No Android device connected via USB."))
             ELSE GoesOn("ip_addr")

\* method 1 going on to method 2 whatever it found
run_ip_addr_going_on(result) == GoesOn("ifconfig")

\* method 1: ip addr show
run_ip_addr(result) ==
  LET match == re_search("inet", TRUE, result.stdout)
  IN  IF result.returncode = 0 /\ match # << >>
        THEN Returns(Emit("ip_found", match[1]))
        ELSE GoesOn("ifconfig")

\* method 2 as the last method: no getprop after it
run_ifconfig_last(result) ==
  LET match == re_search("inet addr:", FALSE, result.stdout)
  IN  IF result.returncode = 0 /\ match # << >>
        THEN Returns(Emit("ip_found", match[1]))
        ELSE Returns(Emit("error",
               "Could not detect phone IP address. Make sure WiFi is enabled."))

\* method 2: ifconfig
run_ifconfig(result) ==
  LET match == re_search("inet addr:", FALSE, result.stdout)
  IN  IF result.returncode = 0 /\ match # << >>
        THEN Returns(Emit("ip_found", match[1]))
        ELSE GoesOn("getprop")

\* method 3: getprop, and the error after it
\* run_getprop that starts the address queries again when it finds nothing
run_getprop_retrying(result) ==
  LET ip == strip(result.stdout)
  IN  IF result.returncode = 0 /\ ip # "" /\ re_match_ipv4(ip)
        THEN Returns(Emit("ip_found", ip))
        ELSE GoesOn("ip_addr")

run_getprop(result) ==
  LET ip == strip(result.stdout)
  IN  IF result.returncode = 0 /\ ip # "" /\ re_match_ipv4(ip)
        THEN Returns(Emit("ip_found", ip))
        ELSE Returns(Emit("error",
               "Could not detect phone IP address. Make sure WiFi is enabled."))

\* the except clauses without the last, catch-all one
except_clauses_no_catch_all(exception) ==
  CASE exception = "TimeoutExpired" -> << "ADB command timed out." >>
    [] exception = "FileNotFoundError"
         -> << "ADB not found. Please install Android Debug Bridge." >>
    [] OTHER -> << >>

\* the except clauses of run: the messages emitted for an exception; none
\* when no clause takes it
except_clauses(exception) ==
  CASE exception = "TimeoutExpired" -> << "ADB command timed out." >>
    [] exception = "FileNotFoundError"
         -> << "ADB not found. Please install Android Debug Bridge." >>
    [] OTHER -> << "Error detecting IP: " \o exception >>

\* run taking a timeout of an invocation as a failed invocation
run_block_timeout_goes_on(cmd, result) ==
  IF result.raises \notin { "", "TimeoutExpired" }
    THEN LET messages == except_clauses(result.raises)
         IN  [ pc |-> IF messages = << >> THEN "uncaught" ELSE "return",
               emit |-> [ i \in 1..Len(messages) |->
                            Emit("error", messages[i]) ] ]
  ELSE LET r == IF result.raises = "" THEN result ELSE CompletedProcess(1, "")
       IN  CASE cmd = "devices" -> run_devices(r)
             [] cmd = "ip_addr" -> run_ip_addr(r)
             [] cmd = "ifconfig" -> run_ifconfig(r)
             [] cmd = "getprop" -> run_getprop(r)

\* run from the invocation cmd on, given the result of that invocation
run_block(cmd, result) ==
  IF result.raises # ""
    THEN LET messages == except_clauses(result.raises)
         IN  [ pc |-> IF messages = << >> THEN "uncaught" ELSE "return",
               emit |-> [ i \in 1..Len(messages) |->
                            Emit("error", messages[i]) ] ]
  ELSE CASE cmd = "devices" -> run_devices(result)
         [] cmd = "ip_addr" -> run_ip_addr(result)
         [] cmd = "ifconfig" -> run_ifconfig(result)
         [] cmd = "getprop" -> run_getprop(result)

\* addresses a detector thread reports
DetectedAddresses == { "192.168.1.55" }

\* exceptions of subprocess.run: the timeout, no adb executable, any other
SubprocessExceptions ==
  { "TimeoutExpired", "FileNotFoundError", "PermissionError" }

\* results of the invocations in runs of the prober
ProbeOutcomes ==
  [ cmd \in { Commands[i] : i \in 1..Len(Commands) } |->
      { Raises(e) : e \in SubprocessExceptions }
      \cup { CompletedProcess(1, "") }
      \cup { CompletedProcess(0, out) : out \in
        CASE cmd = "devices" ->
               { "List of devices attached\n\n",
                 "List of devices attached\nR58M123\tdevice\n\n",
                 "List of devices attached\nR58M123\toffline\n\n",
                 "List of devices attached\nR58M123\tunauthorized\n\n",
                 "List of devices attached\nmydevice1\toffline\n\n" }
          [] cmd = "ip_addr" ->
               { "",
                 "3: wlan0: <UP>\n    inet6 fe80::1/64 scope link\n",
                 "3: wlan0: <UP>\n    inet 192.168.1.55/24 brd 192.168.1.255\n" }
          [] cmd = "ifconfig" ->
               { "ifconfig: not found\n",
                 "wlan0  inet addr:10.0.0.7  Bcast:10.0.0.255\n" }
          [] cmd = "getprop" ->
               { "\n", "192.168.1.55\n", "192.168.1.55 wlan0\n",
                 "10.0.0.7x\n", "unknown\n" } } ]

\* results of the invocations in runs of the whole window
WindowOutcomes ==
  [ cmd \in { Commands[i] : i \in 1..Len(Commands) } |->
      CASE cmd = "devices" ->
             { CompletedProcess(0, "List of devices attached\nR58M123\tdevice\n\n") }
        [] cmd = "ip_addr" ->
             { Raises("TimeoutExpired") }
             \cup { CompletedProcess(0, "inet " \o ip \o "/24") :
                      ip \in DetectedAddresses }
        [] OTHER -> { CompletedProcess(1, "") } ]

\* QThread.start(): a thread at the top of run
Started ==
  [ pc |-> Commands[1], calls |-> << >>, emitted |-> << >>,
    interruption_requested |-> FALSE ]

\* detect_phone_ip without the test of a running thread
detect_phone_ip_unguarded ==
  /\ Len(ip_signals) < MaxProbes
  /\ ui' = [ ui EXCEPT !.ip_label = "Phone IP: Detecting..." ]
  /\ ip_detector' = "Running"
  /\ detector_run' = Started
  /\ UNCHANGED << widgets, command, scrcpy_command_label, qprocesses,
                  ip_signals, edits >>

\* detect_phone_ip that tests for a detector thread, running or not
detect_phone_ip_once ==
  /\ Len(ip_signals) < MaxProbes
  /\ IF ip_detector # "None"
       THEN UNCHANGED << ui, ip_detector, detector_run >>
       ELSE /\ ui' = [ ui EXCEPT !.ip_label = "Phone IP: Detecting..." ]
            /\ ip_detector' = "Running"
            /\ detector_run' = Started
  /\ UNCHANGED << widgets, command, scrcpy_command_label, qprocesses,
                  ip_signals, edits >>

\* detect_phone_ip, on a click of the detect button
detect_phone_ip ==
  /\ Len(ip_signals) < MaxProbes
  /\ IF ip_detector = "Running"
       THEN UNCHANGED << ui, ip_detector, detector_run >>
       ELSE /\ ui' = [ ui EXCEPT !.ip_label = "Phone IP: Detecting..." ]
            /\ ip_detector' = "Running"
            /\ detector_run' = Started
  /\ UNCHANGED << widgets, command, scrcpy_command_label, qprocesses,
                  ip_signals, edits >>

\* PhoneIPDetector.run, one external invocation at a time: the invocation
\* the thread has come to, with a result out of outcomes, and the code that
\* follows it up to the next invocation or the end of run
PhoneIPDetector_run(outcomes) ==
  /\ ip_detector = "Running"
  /\ \E result \in outcomes[detector_run.pc] :
       LET after == run_block(detector_run.pc, result)
           call == [ argv |-> argv(detector_run.pc), result |-> result,
                     interrupted |-> detector_run.interruption_requested ]
       IN  /\ detector_run' =
                [ detector_run EXCEPT !.pc = after.pc,
                                      !.calls = Append(@, call),
                                      !.emitted = @ \o after.emit ]
           /\ ip_signals' = ip_signals \o after.emit
           /\ ip_detector' = IF after.pc \in { "return", "uncaught" }
                               THEN "Finished"
                               ELSE "Running"
  /\ UNCHANGED << widgets, command, scrcpy_command_label, ui, qprocesses,
                  edits >>

\* QThread.requestInterruption(), the one request to stop the class has:
\* it sets a flag on a running thread
requestInterruption ==
  /\ ip_detector = "Running"
  /\ ~ detector_run.interruption_requested
  /\ detector_run' = [ detector_run EXCEPT !.interruption_requested = TRUE ]
  /\ UNCHANGED << widgets, command, scrcpy_command_label, ui, qprocesses,
                  ip_detector, ip_signals, edits >>

\* on_ip_detected that also ticks the TCP/IP check box
DeliverDetectorSignal_enabling_tcpip ==
  /\ ip_signals # << >>
  /\ LET signal == Head(ip_signals)
         address == signal.arg \o ":5555"
     IN  IF signal.name = "ip_found"
           THEN /\ ui' = [ ui EXCEPT !.ip_label = "Phone IP: " \o signal.arg ]
                /\ widgets' = [ widgets EXCEPT !.scrcpy_tcpip_address = address,
                                               !.scrcpy_tcpip = TRUE ]
                /\ update_scrcpy_command(widgets')
           ELSE /\ ui' = [ ui EXCEPT !.ip_label = "Phone IP: Detection failed" ]
                /\ UNCHANGED << widgets, command, scrcpy_command_label >>
  /\ ip_signals' = Tail(ip_signals)
  /\ UNCHANGED << qprocesses, ip_detector, detector_run, edits >>

\* on_ip_detected and on_ip_error, run when the window takes a queued signal
\* of a detector thread; setText emits textChanged when the text differs
DeliverDetectorSignal ==
  /\ ip_signals # << >>
  /\ LET signal == Head(ip_signals)
         address == signal.arg \o ":5555"
     IN  IF signal.name = "ip_found"
           THEN /\ ui' = [ ui EXCEPT !.ip_label = "Phone IP: " \o signal.arg ]
                /\ widgets' = [ widgets EXCEPT !.scrcpy_tcpip_address = address ]
                /\ IF address # widgets.scrcpy_tcpip_address
                     THEN update_scrcpy_command(widgets')
                     ELSE UNCHANGED << command, scrcpy_command_label >>
           ELSE /\ ui' = [ ui EXCEPT !.ip_label = "Phone IP: Detection failed" ]
                /\ UNCHANGED << widgets, command, scrcpy_command_label >>
  /\ ip_signals' = Tail(ip_signals)
  /\ UNCHANGED << qprocesses, ip_detector, detector_run, edits >>

\* the option widgets driven in runs of the whole window: the TCP/IP pair,
\* which phone-IP detection writes to
WindowCheckBoxes == { "scrcpy_tcpip" }

Next ==
  \/ \E k \in WindowCheckBoxes : ToggleCheckBox(k, MaxEdits)
  \/ \E text \in { "", "h:1" } :
       EditLineText("scrcpy_tcpip_address", text, MaxEdits)
  \/ start_scrcpy(MaxProcesses)
  \/ stop_scrcpy
  \/ start_droidcam(MaxProcesses)
  \/ stop_droidcam
  \/ \E p \in 1..Len(qprocesses) : ProcessFinished(p)
  \/ \E p \in 1..Len(qprocesses) : \E error \in ProcessErrors :
       ProcessErrorOccurred(p, error)
  \/ detect_phone_ip
  \/ PhoneIPDetector_run(WindowOutcomes)
  \/ DeliverDetectorSignal

Spec == Init /\ [][Next]_vars

\* the prober and the window's part in a detection
NextProbe ==
  \/ detect_phone_ip
  \/ PhoneIPDetector_run(ProbeOutcomes)
  \/ requestInterruption
  \/ DeliverDetectorSignal

SpecProbe == Init /\ [][NextProbe]_vars

\* the prober with a thread that is scheduled: every subprocess.run call has
\* a timeout, so the thread always comes to its next invocation or its end
SpecProbeLive == SpecProbe /\ WF_vars(PhoneIPDetector_run(ProbeOutcomes))

\* QProcess objects alive at one time in runs of the process handling
MaxLiveProcesses == 2

\* the process handling alone
NextLifecycle ==
  \/ start_scrcpy(MaxLiveProcesses)
  \/ stop_scrcpy
  \/ start_droidcam(MaxLiveProcesses)
  \/ stop_droidcam
  \/ \E p \in 1..Len(qprocesses) : ProcessFinished(p)
  \/ \E p \in 1..Len(qprocesses) : \E error \in ProcessErrors :
       ProcessErrorOccurred(p, error)

SpecLifecycle == Init /\ [][NextLifecycle]_vars

\* the window is shown: no close event was accepted
WindowOpen == ~ ui.close_accepted

\* the process handling up to the close of the window
NextShutdown ==
  \/ WindowOpen /\ start_scrcpy(MaxLiveProcesses)
  \/ WindowOpen /\ stop_scrcpy
  \/ WindowOpen /\ start_droidcam(MaxLiveProcesses)
  \/ WindowOpen /\ stop_droidcam
  \/ WindowOpen /\ \E p \in 1..Len(qprocesses) : ProcessFinished(p)
  \/ WindowOpen /\ \E p \in 1..Len(qprocesses) : \E error \in ProcessErrors :
       ProcessErrorOccurred(p, error)
  \/ closeEvent

SpecShutdown == Init /\ [][NextShutdown]_vars

\* input events on every option widget in runs of the command preview
MaxPreviewEdits == 1

\* the command preview: every option widget, phone-IP detection, which
\* writes the TCP/IP address, and the start of scrcpy
NextPreview ==
  \/ \E k \in CheckBoxes : ToggleCheckBox(k, MaxPreviewEdits)
  \/ \E k \in ComboBoxes : \E item \in ComboItems(k) :
       SelectComboItem(k, item, MaxPreviewEdits)
  \/ \E k \in SpinBoxes : \E v \in SpinValues(k) :
       SetSpinValue(k, v, MaxPreviewEdits)
  \/ \E k \in LineEdits : \E text \in LineEditTexts(k) :
       EditLineText(k, text, MaxPreviewEdits)
  \/ detect_phone_ip
  \/ PhoneIPDetector_run(WindowOutcomes)
  \/ DeliverDetectorSignal
  \/ start_scrcpy(MaxProcesses)

SpecPreview == Init /\ [][NextPreview]_vars

(***************************************************************************)
(* Vocabulary of the properties, stated without the composer's code.       *)
(***************************************************************************)
StartsWith(t, prefix) ==
  /\ Len(t) >= Len(prefix)
  /\ SubSeq(t, 1, Len(prefix)) = prefix

Blank(s, i) == SubSeq(s, i, i) = " " \/ SubSeq(s, i, i) = "\t"

\* where a maximal run of non-blank characters starts, and where it ends
WordStarts(s) ==
  { i \in 1..Len(s) : ~ Blank(s, i) /\ (i = 1 \/ Blank(s, i - 1)) }

WordEnd(s, i) ==
  CHOOSE j \in i..Len(s) :
    /\ \A m \in i..j : ~ Blank(s, m)
    /\ j = Len(s) \/ Blank(s, j + 1)

\* the whitespace-separated words of a text, in their order
WordsOf(s) ==
  LET starts == WordStarts(s)
  IN  [ n \in 1..Cardinality(starts) |->
          LET i == CHOOSE x \in starts :
                     Cardinality({ y \in starts : y <= x }) = n
          IN  SubSeq(s, i, WordEnd(s, i)) ]

\* decimal notation of 0..9999
DecimalText(n) ==
  LET d(x) == SubSeq("0123456789", x + 1, x + 1)
  IN  IF n < 10 THEN d(n)
      ELSE IF n < 100 THEN d(n \div 10) \o d(n % 10)
      ELSE IF n < 1000 THEN d(n \div 100) \o d((n \div 10) % 10) \o d(n % 10)
      ELSE d(n \div 1000) \o d((n \div 100) % 10) \o d((n \div 10) % 10)
           \o d(n % 10)

OrientationSuffix(item) ==
  CASE item = "0deg" -> "@0"
    [] item = "90deg" -> "@90"
    [] item = "180deg" -> "@180"
    [] item = "270deg" -> "@270"

\* the token groups in their specified order: which option each belongs to,
\* whether it is enabled, and its tokens
TokenGroups(w) ==
  << [ opt |-> "program", on |-> TRUE, tokens |-> << "scrcpy" >> ],
     [ opt |-> "tcpip",
       on |-> w.scrcpy_tcpip /\ w.scrcpy_tcpip_address # "",
       tokens |-> << "--tcpip=" \o w.scrcpy_tcpip_address >> ],
     [ opt |-> "video-codec", on |-> w.scrcpy_video_codec # "default",
       tokens |-> << "--video-codec", w.scrcpy_video_codec >> ],
     [ opt |-> "video-source", on |-> w.scrcpy_video_source = "camera",
       tokens |-> << "--video-source=camera" >> ],
     [ opt |-> "mouse-control", on |-> w.scrcpy_mouse_control,
       tokens |-> << "-M" >> ],
     [ opt |-> "keyboard-control", on |-> w.scrcpy_keyboard_control,
       tokens |-> << "-K" >> ],
     [ opt |-> "keyboard-control",
       on |-> w.scrcpy_keyboard_control /\ w.scrcpy_keyboard_mode # "default",
       tokens |-> << "--keyboard=" \o w.scrcpy_keyboard_mode >> ],
     [ opt |-> "no-control", on |-> w.scrcpy_no_control,
       tokens |-> << "-n" >> ],
     [ opt |-> "max-size", on |-> w.scrcpy_max_size,
       tokens |-> << "-m", DecimalText(w.scrcpy_size_value) >> ],
     [ opt |-> "max-fps", on |-> w.scrcpy_max_fps,
       tokens |-> << "--max-fps", DecimalText(w.scrcpy_fps_value) >> ],
     [ opt |-> "bitrate", on |-> w.scrcpy_bit_rate,
       tokens |-> << "-b", DecimalText(w.scrcpy_bitrate_value) \o "M" >> ],
     [ opt |-> "record",
       on |-> w.scrcpy_record /\ w.scrcpy_record_filename # "",
       tokens |-> << "--record", w.scrcpy_record_filename >> ],
     [ opt |-> "screen-timeout", on |-> w.scrcpy_screen_timeout,
       tokens |-> << "--screen-off-timeout",
                     DecimalText(w.scrcpy_timeout_value) >> ],
     [ opt |-> "orientation", on |-> w.scrcpy_orientation # "auto",
       tokens |-> IF w.scrcpy_orientation = "auto" THEN << >>
                  ELSE << "--capture-orientation="
                          \o OrientationSuffix(w.scrcpy_orientation) >> ],
     [ opt |-> "fullscreen", on |-> w.scrcpy_fullscreen,
       tokens |-> << "-f" >> ],
     [ opt |-> "stay-awake", on |-> w.scrcpy_stay_awake,
       tokens |-> << "-w" >> ],
     [ opt |-> "show-touches", on |-> w.scrcpy_show_touches,
       tokens |-> << "-t" >> ],
     [ opt |-> "disable-screensaver", on |-> w.scrcpy_disable_screensaver,
       tokens |-> << "-S" >> ],
     [ opt |-> "borderless", on |-> w.scrcpy_borderless,
       tokens |-> << "-b" >> ],
     [ opt |-> "always-on-top", on |-> w.scrcpy_always_on_top,
       tokens |-> << "-T" >> ],
     [ opt |-> "turn-screen-off", on |-> w.scrcpy_turn_screen_off,
       tokens |-> << "-o" >> ],
     [ opt |-> "no-audio", on |-> w.scrcpy_no_audio,
       tokens |-> << "--no-audio" >> ],
     [ opt |-> "custom", on |-> TRUE,
       tokens |-> WordsOf(w.scrcpy_custom_params) ] >>

\* the tokens of the enabled groups among the first n, in order
RECURSIVE EnabledTokens(_, _)
EnabledTokens(groups, n) ==
  IF n = 0 THEN << >>
  ELSE EnabledTokens(groups, n - 1)
       \o (IF groups[n].on THEN groups[n].tokens ELSE << >>)

ExpectedCommand(w) == EnabledTokens(TokenGroups(w), Len(TokenGroups(w)))

\* positions of a composed command that hold user text copied verbatim: the
\* custom-argument words at the end, and the file name after the record flag
CustomPositions(w, cmd) ==
  (Len(cmd) - Len(WordsOf(w.scrcpy_custom_params)) + 1)..Len(cmd)

RecordValuePositions(w, cmd) ==
  LET custom == CustomPositions(w, cmd)
      flags == { i \in 1..Len(cmd) : i \notin custom /\ cmd[i] = "--record" }
  IN  IF w.scrcpy_record /\ w.scrcpy_record_filename # "" /\ flags # {}
        THEN { (CHOOSE i \in flags : \A j \in flags : i <= j) + 1 }
        ELSE {}

VerbatimPositions(w, cmd) ==
  CustomPositions(w, cmd) \cup RecordValuePositions(w, cmd)

\* positions whose token compose wrote itself
OwnPositions(w, cmd) == (1..Len(cmd)) \ VerbatimPositions(w, cmd)


(***************************************************************************)
(* Properties of the composer.                                             *)
(***************************************************************************)

\* C1: the composed command is exactly the concatenation, in the specified
\* order, of the token groups that are enabled, and nothing else.
C1_OrderedConcatenation == command = ExpectedCommand(widgets)

\* every group is enabled and the command, composed after an input event,
\* holds all of them
C1_Witness ==
  /\ edits > 0
  /\ \A n \in 1..Len(TokenGroups(widgets)) : TokenGroups(widgets)[n].on
  /\ WordsOf(widgets.scrcpy_custom_params) # << >>
  /\ command = ExpectedCommand(widgets)

\* C2: the composed command is never empty and its first token is the
\* program name "scrcpy", whatever the option widgets and the custom text hold.
C2_ProgramNameFirst ==
  /\ Len(command) >= 1
  /\ command[1] = "scrcpy"

C2_Witness ==
  /\ edits > 0
  /\ widgets.scrcpy_custom_params = "-m 1 -K"
  /\ widgets.scrcpy_tcpip /\ widgets.scrcpy_tcpip_address # ""
  /\ command[1] = "scrcpy"
  /\ Len(command) > 4

\* C3 as stated: with TCP/IP disabled or its address empty no token of the
\* command starts with "--tcpip", whatever the other fields hold; with TCP/IP
\* enabled and an address the TCP/IP token is the second token.
C3_Original ==
  /\ (~ widgets.scrcpy_tcpip \/ widgets.scrcpy_tcpip_address = "")
       => \A i \in 1..Len(command) : ~ StartsWith(command[i], "--tcpip")
  /\ (widgets.scrcpy_tcpip /\ widgets.scrcpy_tcpip_address # "")
       => Len(command) >= 2 /\ StartsWith(command[2], "--tcpip")

\* C3 amended: with TCP/IP disabled or its address empty, no token that
\* compose writes itself starts with "--tcpip" (only user text copied
\* verbatim, a custom-argument word or the record file name, can); with
\* TCP/IP enabled and an address, the second token is "--tcpip=<address>".
C3_NoOwnTcpipFlag ==
  /\ (~ widgets.scrcpy_tcpip \/ widgets.scrcpy_tcpip_address = "")
       => \A i \in OwnPositions(widgets, command) :
            ~ StartsWith(command[i], "--tcpip")
  /\ (widgets.scrcpy_tcpip /\ widgets.scrcpy_tcpip_address # "")
       => /\ Len(command) >= 2
          /\ command[2] = "--tcpip=" \o widgets.scrcpy_tcpip_address

\* TCP/IP is checked with an empty address, the custom text carries a
\* "--tcpip" word, and the command holds it only in the custom positions
C3_Witness ==
  /\ edits > 0
  /\ widgets.scrcpy_tcpip
  /\ widgets.scrcpy_tcpip_address = ""
  /\ \E i \in CustomPositions(widgets, command) :
       StartsWith(command[i], "--tcpip")
  /\ \A i \in OwnPositions(widgets, command) :
       ~ StartsWith(command[i], "--tcpip")

FirstOwn(w, cmd, token) ==
  LET at == { i \in OwnPositions(w, cmd) : cmd[i] = token }
  IN  IF at = {} THEN 0 ELSE CHOOSE i \in at : \A j \in at : i <= j

\* C4 as stated: with keyboard control disabled no keyboard-mode flag is in
\* the command; with it enabled and mode uhid or aoa the flag is the token
\* right after "-K"; with mode default there is no keyboard-mode flag.
C4_Original ==
  LET modeFlags == { i \in 1..Len(command) :
                       StartsWith(command[i], "--keyboard=") }
      k == FirstOwn(widgets, command, "-K")
  IN  /\ ~ widgets.scrcpy_keyboard_control => modeFlags = {}
      /\ (widgets.scrcpy_keyboard_control
            /\ widgets.scrcpy_keyboard_mode \in { "uhid", "aoa" })
           => /\ k > 0 /\ k < Len(command)
              /\ command[k + 1] = "--keyboard=" \o widgets.scrcpy_keyboard_mode
      /\ (widgets.scrcpy_keyboard_control
            /\ widgets.scrcpy_keyboard_mode = "default")
           => modeFlags = {}

\* C4 amended: the same, for the tokens compose writes itself: with keyboard
\* control disabled, or enabled with mode default, none of them is a
\* keyboard-mode flag; with keyboard control enabled and mode uhid or aoa the
\* one keyboard-mode flag among them is the token right after "-K".
C4_KeyboardModeFollowsK ==
  LET modeFlags == { i \in OwnPositions(widgets, command) :
                       StartsWith(command[i], "--keyboard=") }
      k == FirstOwn(widgets, command, "-K")
  IN  /\ ~ widgets.scrcpy_keyboard_control => modeFlags = {}
      /\ (widgets.scrcpy_keyboard_control
            /\ widgets.scrcpy_keyboard_mode \in { "uhid", "aoa" })
           => /\ k > 0
              /\ modeFlags = { k + 1 }
              /\ command[k + 1] = "--keyboard=" \o widgets.scrcpy_keyboard_mode
      /\ (widgets.scrcpy_keyboard_control
            /\ widgets.scrcpy_keyboard_mode = "default")
           => modeFlags = {}

\* keyboard control is off while the mode is not default, and the command
\* was composed after an input event
C4_Witness ==
  /\ edits > 0
  /\ ~ widgets.scrcpy_keyboard_control
  /\ widgets.scrcpy_keyboard_mode = "uhid"
  /\ widgets.scrcpy_mouse_control
  /\ "-M" \in { command[i] : i \in 1..Len(command) }
  /\ \A i \in 1..Len(command) : ~ StartsWith(command[i], "--keyboard=")

\* C5: the orientation option writes no orientation flag for "auto", and for
\* each other item exactly one "--capture-orientation=" token with the suffix
\* @0, @90, @180, @270 of that item; compose raises on no selectable item.
C5_OrientationFlag ==
  LET flags == { i \in OwnPositions(widgets, command) :
                   StartsWith(command[i], "--capture-orientation=") }
  IN  /\ widgets.scrcpy_orientation \in OrientationItems
      /\ ~ get_scrcpy_command_raises(widgets)
      /\ widgets.scrcpy_orientation = "auto" => flags = {}
      /\ widgets.scrcpy_orientation # "auto"
           => \E i \in 1..Len(command) :
                /\ flags = { i }
                /\ command[i] = "--capture-orientation="
                                 \o OrientationSuffix(widgets.scrcpy_orientation)

C5_Witness ==
  /\ edits > 0
  /\ widgets.scrcpy_orientation = "180deg"
  /\ "--capture-orientation=@180" \in { command[i] : i \in 1..Len(command) }

\* C6: the whitespace-separated words of the custom text are the last tokens
\* of the command, contiguous, in order and unchanged, and the tokens before
\* them are those of the same configuration with an empty custom text; an
\* empty or all-blank custom text adds no token.
C6_CustomWordsAreSuffix ==
  LET words == WordsOf(widgets.scrcpy_custom_params)
      n == Len(words)
      m == Len(command)
  IN  /\ m > n
      /\ SubSeq(command, m - n + 1, m) = words
      /\ SubSeq(command, 1, m - n)
           = get_scrcpy_command([widgets EXCEPT !.scrcpy_custom_params = ""])
      /\ \A i \in 1..n :
           /\ words[i] # ""
           /\ \A j \in 1..Len(words[i]) : ~ Blank(words[i], j)

\* a custom text with leading, repeated and trailing blanks
C6_Witness ==
  /\ edits > 0
  /\ widgets.scrcpy_custom_params = "  --foo \t bar "
  /\ widgets.scrcpy_no_audio
  /\ Len(command) >= 4
  /\ SubSeq(command, Len(command) - 2, Len(command))
       = << "--no-audio", "--foo", "bar" >>

\* the configuration of the first worked example
Example7 ==
  [ InitialWidgets EXCEPT !.scrcpy_video_codec = "h264",
                          !.scrcpy_orientation = "90deg",
                          !.scrcpy_fullscreen = TRUE,
                          !.scrcpy_custom_params = "--foo bar" ]

\* C7: on the configuration of the first worked example the command is
\* scrcpy --video-codec h264 -M -K --capture-orientation=@90 -f --foo bar.
C7_WorkedExample ==
  widgets = Example7
    => command = << "scrcpy", "--video-codec", "h264", "-M", "-K",
                    "--capture-orientation=@90", "-f", "--foo", "bar" >>

C7_Witness ==
  /\ widgets = Example7
  /\ edits = 4
  /\ Len(command) = 9

\* the valued options: enable check box, value widget, flag
ValuedOptions ==
  { [ check |-> "scrcpy_max_size", value |-> "scrcpy_size_value",
      flag |-> "-m" ],
    [ check |-> "scrcpy_max_fps", value |-> "scrcpy_fps_value",
      flag |-> "--max-fps" ],
    [ check |-> "scrcpy_bit_rate", value |-> "scrcpy_bitrate_value",
      flag |-> "-b" ],
    [ check |-> "scrcpy_screen_timeout", value |-> "scrcpy_timeout_value",
      flag |-> "--screen-off-timeout" ],
    [ check |-> "scrcpy_record", value |-> "scrcpy_record_filename",
      flag |-> "--record" ] }

ValueText(o, w) ==
  CASE o.check = "scrcpy_record" -> w.scrcpy_record_filename
    [] o.check = "scrcpy_bit_rate" -> DecimalText(w.scrcpy_bitrate_value) \o "M"
    [] OTHER -> DecimalText(w[o.value])

ValueChoices(o) ==
  IF o.check = "scrcpy_record" THEN RecordFilenames ELSE SpinValues(o.value)

\* seq with the tokens ins put in after its first p tokens
InsertAfter(seq, p, ins) ==
  SubSeq(seq, 1, p) \o ins \o SubSeq(seq, p + 1, Len(seq))

\* only the bitrate option is enabled, at 8, and nothing else adds a token
OnlyBitrateAt8 ==
  [ NoneChecked EXCEPT !.scrcpy_bit_rate = TRUE ]

\* C8: a valued option adds its flag followed by its value to the command
\* exactly when its check box is set (record: and the file name is not
\* empty) and adds nothing, whatever its value widget holds, when it is not;
\* the bitrate value is the integer followed by "M"; only bitrate enabled at
\* 8 gives scrcpy -b 8M.
C8_ValuedOptions ==
  /\ \A o \in ValuedOptions :
       LET base == get_scrcpy_command([widgets EXCEPT ![o.check] = FALSE])
       IN  /\ (widgets[o.check] /\ ValueText(o, widgets) # "")
                => \E p \in 1..Len(base) :
                     command
                       = InsertAfter(base, p, << o.flag, ValueText(o, widgets) >>)
           /\ (widgets[o.check] /\ ValueText(o, widgets) = "")
                => command = base
           /\ ~ widgets[o.check]
                => \A v \in ValueChoices(o) :
                     get_scrcpy_command([widgets EXCEPT ![o.value] = v])
                       = command
  /\ widgets = OnlyBitrateAt8 => command = << "scrcpy", "-b", "8M" >>

C8_Witness ==
  /\ edits > 0
  /\ widgets = OnlyBitrateAt8
  /\ command = << "scrcpy", "-b", "8M" >>

\* the option a widget belongs to
OptionOf(k) ==
  CASE k \in { "scrcpy_tcpip", "scrcpy_tcpip_address" } -> "tcpip"
    [] k = "scrcpy_video_codec" -> "video-codec"
    [] k = "scrcpy_video_source" -> "video-source"
    [] k = "scrcpy_mouse_control" -> "mouse-control"
    [] k \in { "scrcpy_keyboard_control", "scrcpy_keyboard_mode" }
         -> "keyboard-control"
    [] k = "scrcpy_no_control" -> "no-control"
    [] k \in { "scrcpy_max_size", "scrcpy_size_value" } -> "max-size"
    [] k \in { "scrcpy_max_fps", "scrcpy_fps_value" } -> "max-fps"
    [] k \in { "scrcpy_bit_rate", "scrcpy_bitrate_value" } -> "bitrate"
    [] k \in { "scrcpy_record", "scrcpy_record_filename" } -> "record"
    [] k \in { "scrcpy_screen_timeout", "scrcpy_timeout_value" }
         -> "screen-timeout"
    [] k = "scrcpy_orientation" -> "orientation"
    [] k = "scrcpy_fullscreen" -> "fullscreen"
    [] k = "scrcpy_stay_awake" -> "stay-awake"
    [] k = "scrcpy_show_touches" -> "show-touches"
    [] k = "scrcpy_disable_screensaver" -> "disable-screensaver"
    [] k = "scrcpy_borderless" -> "borderless"
    [] k = "scrcpy_always_on_top" -> "always-on-top"
    [] k = "scrcpy_turn_screen_off" -> "turn-screen-off"
    [] k = "scrcpy_no_audio" -> "no-audio"
    [] k = "scrcpy_custom_params" -> "custom"

\* the tokens an option's groups stand for in configuration w
OwnTokens(opt, w) ==
  LET mine == SelectSeq(TokenGroups(w), LAMBDA g : g.opt = opt)
  IN  EnabledTokens(mine, Len(mine))

\* cmd1 and cmd2 are equal but for one stretch, which is a in cmd1, b in cmd2
DiffersOnlyIn(cmd1, a, cmd2, b) ==
  \E p \in 0..Len(cmd1) :
    /\ p + Len(a) <= Len(cmd1)
    /\ SubSeq(cmd1, p + 1, p + Len(a)) = a
    /\ cmd2 = SubSeq(cmd1, 1, p) \o b \o SubSeq(cmd1, p + Len(a) + 1, Len(cmd1))

\* one input event: the command changes only in the tokens of the option
\* whose widget changed
C9_Step ==
  \A k \in DOMAIN widgets :
    widgets'[k] # widgets[k]
      => DiffersOnlyIn(command, OwnTokens(OptionOf(k), widgets),
                       command', OwnTokens(OptionOf(k), widgets'))

C9_State ==
  /\ (widgets.scrcpy_mouse_control /\ widgets.scrcpy_keyboard_control
        /\ widgets.scrcpy_no_control)
       => \E i, j, l \in OwnPositions(widgets, command) :
            /\ i < j /\ j < l
            /\ command[i] = "-M" /\ command[j] = "-K" /\ command[l] = "-n"
  /\ (widgets.scrcpy_tcpip /\ widgets.scrcpy_tcpip_address # "")
       => command
            = << "scrcpy", "--tcpip=" \o widgets.scrcpy_tcpip_address >>
              \o Tail(get_scrcpy_command([widgets EXCEPT !.scrcpy_tcpip = FALSE]))

\* C9: options do not suppress one another: an input event on one widget
\* changes the command only in the tokens of that widget's option (the
\* keyboard mode belongs to the keyboard-control option); with mouse,
\* keyboard and no-control all enabled, -M, -K and -n are all written, in
\* this order; an enabled TCP/IP address only adds its token after the
\* program name and removes nothing.
C9_OptionsIndependent == [][C9_Step]_vars /\ []C9_State

\* the three control options are enabled together, with TCP/IP in use
C9_Witness ==
  /\ edits > 0
  /\ widgets.scrcpy_mouse_control
  /\ widgets.scrcpy_keyboard_control
  /\ widgets.scrcpy_no_control
  /\ widgets.scrcpy_tcpip /\ widgets.scrcpy_tcpip_address = "h:1"
  /\ command[2] = "--tcpip=h:1"
  /\ \E i \in 3..(Len(command) - 3) :
       SubSeq(command, i, i + 3) = << "-M", "-K", "--keyboard=aoa", "-n" >>

(***************************************************************************)
(* Properties of the composer within the running window.                   *)
(***************************************************************************)

\* the scrcpy processes alive whose command was composed from the values
\* the option widgets hold now
ComposedFromSameValues ==
  { p \in 1..Len(qprocesses) :
      /\ qprocesses[p].tool = "scrcpy"
      /\ qprocesses[p].composed_from = widgets }

\* the call in start_scrcpy and the call of the latest preview refresh, on
\* the same widget values, returned the same list; no call raised
C10_State ==
  /\ ~ get_scrcpy_command_raises(widgets)
  /\ Len(command) >= 1
  /\ \A p \in ComposedFromSameValues :
       << qprocesses[p].program >> \o qprocesses[p].arguments = command

\* a step that starts scrcpy, composing on its way, leaves the option
\* widgets, the previewed command and the detection state as they were
C10_Step ==
  (\E p \in 1..Len(qprocesses') :
     /\ qprocesses'[p].tool = "scrcpy"
     /\ p \in 1..Len(qprocesses) => qprocesses[p].tool # "scrcpy")
    => /\ UNCHANGED << widgets, command, scrcpy_command_label >>
       /\ UNCHANGED << ip_detector, ip_signals >>
       /\ ui'.ip_label = ui.ip_label
       /\ ui'.droidcam_process = ui.droidcam_process

FlagOf(k, w) ==
  LET alone == [ x \in DOMAIN w |->
                   IF x \in CheckBoxes THEN x = k
                   ELSE IF x \in ComboBoxes THEN InitialWidgets[x]
                   ELSE IF x = "scrcpy_custom_params" THEN ""
                   ELSE w[x] ]
      cmd == get_scrcpy_command(alone)
  IN  IF Len(cmd) > 1 THEN cmd[2] ELSE ""

\* C27 as stated: with no custom arguments, no two ticked check boxes write
\* the same flag, and a "-b" the composer wrote is the flag of the bitrate
\* option, followed by its value.
C27_FlagsIdentifyOptions ==
  widgets.scrcpy_custom_params = "" =>
    /\ \A k1 \in CheckBoxes : \A k2 \in CheckBoxes :
         (/\ k1 # k2 /\ widgets[k1] /\ widgets[k2]
          /\ FlagOf(k1, widgets) # "")
           => FlagOf(k1, widgets) # FlagOf(k2, widgets)
    /\ \A i \in OwnPositions(widgets, command) :
         command[i] = "-b"
           => /\ widgets.scrcpy_bit_rate
              /\ i < Len(command)
              /\ command[i + 1] = DecimalText(widgets.scrcpy_bitrate_value) \o "M"

(***************************************************************************)
(* Properties of the prober.                                               *)
(***************************************************************************)
\* the invocations the thread of the latest detection has made so far
Calls == detector_run.calls

\* the run of that thread has ended
ProbeEnded == detector_run.pc \in { "return", "uncaught" } /\ Calls # << >>

Invoked(cmd) == \E i \in 1..Len(Calls) : Calls[i].argv = argv(cmd)

\* the result of the invocation cmd; only where Invoked(cmd)
ResultOf(cmd) ==
  LET i == CHOOSE x \in 1..Len(Calls) : Calls[x].argv = argv(cmd)
  IN  Calls[i].result

Exited(cmd, ok) ==
  /\ Invoked(cmd)
  /\ ResultOf(cmd).raises = ""
  /\ (ResultOf(cmd).returncode = 0) = ok

TimedOut(cmd) == Invoked(cmd) /\ ResultOf(cmd).raises = "TimeoutExpired"

\* the results of a probe, as the window is told them
Found(address) == << [ name |-> "ip_found", arg |-> address ] >>

ToolMissing ==
  { << [ name |-> "error",
         arg |-> "ADB not found. Make sure it's installed and in PATH." ] >>,
    << [ name |-> "error",
         arg |-> "ADB not found. Please install Android Debug Bridge." ] >> }

NoDeviceAttached ==
  << [ name |-> "error", arg |-> "No Android device connected via USB." ] >>

CommandTimedOut ==
  << [ name |-> "error", arg |-> "ADB command timed out." ] >>

PatternNotMatched ==
  << [ name |-> "error",
       arg |-> "Could not detect phone IP address. Make sure WiFi is enabled." ] >>

ReportsFound ==
  /\ Len(detector_run.emitted) = 1
  /\ detector_run.emitted[1].name = "ip_found"

Digits == { "0", "1", "2", "3", "4", "5", "6", "7", "8", "9" }

Char(t, i) == IF i \in 1..Len(t) THEN SubSeq(t, i, i) ELSE ""

\* t is an IPv4 dotted quad: four non-empty groups of digits, three dots
IsDottedQuad(t) ==
  LET dots == { i \in 1..Len(t) : Char(t, i) = "." }
  IN  /\ Cardinality(dots) = 3
      /\ \A i \in 1..Len(t) : Char(t, i) \in Digits \cup { "." }
      /\ \A i \in dots : Char(t, i - 1) \in Digits /\ Char(t, i + 1) \in Digits

\* the dotted quads that start at position k of text: the longest is what a
\* pattern ending in a dotted quad takes
QuadsAt(text, k) ==
  { e \in k..Len(text) : IsDottedQuad(SubSeq(text, k, e)) }

\* where in text the marker stands, followed (after white space, if spaced)
\* by a dotted quad: << position of the marker, position of the quad >>
MarkedQuads(marker, spaced, text) ==
  { << i, k >> \in (1..Len(text)) \X (1..Len(text)) :
      /\ i + Len(marker) <= k
      /\ SubSeq(text, i, i + Len(marker) - 1) = marker
      /\ IF spaced
           THEN /\ k > i + Len(marker)
                /\ \A j \in (i + Len(marker))..(k - 1) :
                     Char(text, j) \in { " ", "\t", "\n", "\r" }
           ELSE k = i + Len(marker)
      /\ QuadsAt(text, k) # {} }

\* the address a step's output gives: the first marked dotted quad, as a
\* list of zero or one text
AddressIn(marker, spaced, text) ==
  LET found == MarkedQuads(marker, spaced, text)
  IN  IF found = {} THEN << >>
      ELSE LET m == CHOOSE x \in found : \A y \in found : x[1] <= y[1]
               e == CHOOSE x \in QuadsAt(text, m[2]) :
                      \A y \in QuadsAt(text, m[2]) : y <= x
           IN  << SubSeq(text, m[2], e) >>

\* the address the output of an address-query step gives, if it succeeded
WlanAddress(cmd) ==
  IF ~ Exited(cmd, TRUE) THEN << >>
  ELSE CASE cmd = "ip_addr" -> AddressIn("inet", TRUE, ResultOf(cmd).stdout)
         [] cmd = "ifconfig"
              -> AddressIn("inet addr:", FALSE, ResultOf(cmd).stdout)

\* the entries of a device list: its lines after the header that are not
\* empty; an entry is ready when its state is "device"
DeviceEntries(stdout) ==
  LET lines == split_newline(stdout)
  IN  { lines[i] : i \in 2..Len(lines) } \ { "" }

EntryIsReady(entry) ==
  /\ Len(entry) > Len("\tdevice")
  /\ SubSeq(entry, Len(entry) - Len("\tdevice") + 1, Len(entry)) = "\tdevice"

HasReadyDevice(stdout) == \E e \in DeviceEntries(stdout) : EntryIsReady(e)

\* C11: when the device-list invocation cannot be run (no adb executable) or
\* exits with an error, the probe ends at once with the tool-missing error
\* and makes none of the three address queries.
C11_ToolMissingEndsProbe ==
  (\/ Exited("devices", FALSE)
   \/ Invoked("devices") /\ ResultOf("devices").raises = "FileNotFoundError")
    => /\ Len(Calls) = 1
       /\ detector_run.pc = "return"
       /\ detector_run.emitted \in ToolMissing

\* adb devices exited with an error, and the window has been told
C11_Witness ==
  /\ Exited("devices", FALSE)
  /\ ip_detector = "Finished"
  /\ detector_run.emitted \in ToolMissing
  /\ ui.ip_label = "Phone IP: Detection failed"

\* C12 as stated: for every successful device list without an entry in the
\* ready state the probe ends with no-device-attached after that one
\* invocation.
C12_NoReadyDeviceEndsProbe ==
  (Exited("devices", TRUE) /\ ~ HasReadyDevice(ResultOf("devices").stdout))
    => /\ Len(Calls) = 1
       /\ detector_run.pc = "return"
       /\ detector_run.emitted = NoDeviceAttached

\* C13: first success wins, in strict order: the invocations are made one
\* after the other in the order devices, ip addr, ifconfig, getprop; when ip
\* addr succeeds and its output holds "inet <IPv4>" the probe reports that
\* address and invokes neither ifconfig nor getprop; when ifconfig succeeds
\* and its output holds "inet addr:<IPv4>" the probe reports that address and
\* does not invoke getprop.
C13_FirstSuccessWins ==
  /\ Len(Calls) <= Len(Commands)
  /\ \A i \in 1..Len(Calls) : Calls[i].argv = argv(Commands[i])
  /\ WlanAddress("ip_addr") # << >>
       => /\ Len(Calls) = 2
          /\ detector_run.pc = "return"
          /\ detector_run.emitted = Found(WlanAddress("ip_addr")[1])
  /\ WlanAddress("ifconfig") # << >>
       => /\ Len(Calls) = 3
          /\ detector_run.pc = "return"
          /\ detector_run.emitted = Found(WlanAddress("ifconfig")[1])

\* the ip addr step found the address, and the window shows it
C13_Witness ==
  /\ WlanAddress("ip_addr") = << "192.168.1.55" >>
  /\ Len(Calls) = 2
  /\ ip_detector = "Finished"
  /\ ui.ip_label = "Phone IP: 192.168.1.55"

\* C14: when an invocation of the probe times out, the probe ends at once
\* with command-timed-out: that invocation is its last and it reports no
\* address.
C14_TimeoutEndsProbe ==
  \A i \in 1..Len(Calls) :
    Calls[i].result.raises = "TimeoutExpired"
      => /\ i = Len(Calls)
         /\ detector_run.pc = "return"
         /\ detector_run.emitted = CommandTimedOut

\* the ifconfig invocation timed out after ip addr gave no address
C14_Witness ==
  /\ TimedOut("ifconfig")
  /\ Len(Calls) = 3
  /\ ip_detector = "Finished"
  /\ detector_run.emitted = CommandTimedOut

\* an address-query step gave an address: ip addr and ifconfig as above,
\* getprop when its trimmed output begins with a dotted quad
Matched(cmd) ==
  IF cmd = "getprop"
    THEN Exited(cmd, TRUE) /\ QuadsAt(strip(ResultOf(cmd).stdout), 1) # {}
    ELSE WlanAddress(cmd) # << >>

ReadyDeviceAttached ==
  Exited("devices", TRUE) /\ HasReadyDevice(ResultOf("devices").stdout)

FallbackOrder ==
  /\ Invoked("ifconfig") <=> ~ Matched("ip_addr")
  /\ Invoked("getprop") <=> ~ Matched("ip_addr") /\ ~ Matched("ifconfig")
  /\ detector_run.emitted = PatternNotMatched
       <=> ~ Matched("ip_addr") /\ ~ Matched("ifconfig") /\ ~ Matched("getprop")

C16_GetpropBareDottedQuad ==
  /\ (Invoked("getprop") /\ ReportsFound)
       => /\ Exited("getprop", TRUE)
          /\ IsDottedQuad(strip(ResultOf("getprop").stdout))
  /\ ReportsFound => IsDottedQuad(detector_run.emitted[1].arg)

\* while a thread runs, its invocations are only added to, one at a time,
\* the thread is not replaced, and the address label changes only when the
\* window takes a queued signal
C17_Step ==
  ip_detector = "Running"
    => /\ ip_detector' \in { "Running", "Finished" }
       /\ Len(detector_run'.calls) >= Len(Calls)
       /\ Len(detector_run'.calls) <= Len(Calls) + 1
       /\ SubSeq(detector_run'.calls, 1, Len(Calls)) = Calls
       /\ ui'.ip_label # ui.ip_label
            => ip_signals # << >> /\ ip_signals' = Tail(ip_signals)

\* the thread that runs is at one of its four invocations
C17_State ==
  ip_detector = "Running"
    <=> \E i \in 1..Len(Commands) : detector_run.pc = Commands[i]

\* C17: at most one probe is in flight: a detect request made while a thread
\* is running starts no second thread, makes no external invocation and
\* leaves the running probe and the address label as they are.
C17_OneProbeInFlight == [][C17_Step]_vars /\ []C17_State

\* a thread is in the middle of its run, where a detect request is rejected
C17_Witness ==
  /\ ip_detector = "Running"
  /\ detector_run.pc = "ifconfig"
  /\ Len(Calls) = 2
  /\ ui.ip_label = "Phone IP: Detecting..."

\* C18 as stated: the thread checks for a request to stop before each of its
\* address queries: once the request is made, it starts no address query.
C18_CancellationChecked ==
  \A i \in 2..Len(Calls) : ~ Calls[i].interrupted

\* C19: every failure in a probe (no adb executable, an error exit of the
\* device list, a timeout, any other exception) ends the probe with exactly
\* one error signal and no further invocation; no exception leaves run; the
\* window shows the error of the probe it was last told of.
C19_FailuresAreResults ==
  /\ detector_run.pc # "uncaught"
  /\ \A i \in 1..Len(Calls) :
       (\/ Calls[i].result.raises # ""
        \/ i = 1 /\ Calls[i].result.returncode # 0)
         => /\ i = Len(Calls)
            /\ Len(detector_run.emitted) = 1
            /\ detector_run.emitted[1].name = "error"
  /\ detector_run.emitted # << >> => detector_run.pc = "return"
  /\ ProbeEnded => Len(detector_run.emitted) = 1
  /\ (/\ ip_detector = "Finished"
      /\ ip_signals = << >>
      /\ detector_run.emitted # << >>
      /\ detector_run.emitted[1].name = "error")
       => ui.ip_label = "Phone IP: Detection failed"

\* the getprop invocation raised PermissionError and the window was told
C19_Witness ==
  /\ Len(Calls) = 4
  /\ Calls[4].result.raises = "PermissionError"
  /\ detector_run.emitted
       = << [ name |-> "error", arg |-> "Error detecting IP: PermissionError" ] >>
  /\ ip_signals = << >>
  /\ ui.ip_label = "Phone IP: Detection failed"

\* C25: a run of the prober emits no ip_found or error signal while it makes
\* its invocations and exactly one when it has ended; it makes each of the
\* four invocations at most once, in the order of Commands, so at most four.
C25_OneOutcomeNoRetry ==
  /\ ip_detector = "Running" => detector_run.emitted = << >>
  /\ ProbeEnded =>
       /\ Len(detector_run.emitted) = 1
       /\ detector_run.emitted[1].name \in { "ip_found", "error" }
  /\ Len(Calls) <= Len(Commands)
  /\ \A i \in 1..Len(Calls) : \A j \in 1..Len(Calls) :
       Calls[i].argv = Calls[j].argv => i = j
  /\ \A i \in 1..Len(Calls) :
       i <= Len(Commands) => Calls[i].argv = argv(Commands[i])

\* a run that made all four invocations and ended with the one error signal
C25_Witness ==
  /\ ProbeEnded
  /\ Len(Calls) = 4
  /\ \A i \in 1..4 : Calls[i].result.raises = ""
  /\ detector_run.emitted = PatternNotMatched

\* a click on the detect button that starts a detector thread
StartsProbe ==
  /\ detect_phone_ip
  /\ ip_detector' = "Running"
  /\ detector_run' = Started
  /\ ui'.ip_label = "Phone IP: Detecting..."

\* C28: a detector thread that was started comes to its end with one signal
\* emitted; from then on it does not count as running, and a click on the
\* detect button starts a new thread.
C28_Finishes ==
  (ip_detector = "Running")
    ~> (ip_detector = "Finished" /\ Len(detector_run.emitted) = 1)

C28_AcceptedAgain ==
  (ip_detector = "Finished" /\ Len(ip_signals) < MaxProbes)
    => ENABLED StartsProbe

C28_ProbeFinishesAndRestarts == C28_Finishes /\ []C28_AcceptedAgain

\* a second detector thread runs after the address of a first was taken
C28_Witness ==
  /\ widgets.scrcpy_tcpip_address = "192.168.1.55:5555"
  /\ ip_detector = "Running"
  /\ ui.ip_label = "Phone IP: Detecting..."
  /\ Len(Calls) = 1

(***************************************************************************)
(* Properties of the process handling.                                     *)
(***************************************************************************)
\* the processes of a tool that are running
Live(tool) ==
  { p \in 1..Len(qprocesses) :
      qprocesses[p].tool = tool /\ qprocesses[p].state = "Running" }

\* C20 as stated: at any time at most one scrcpy process and at most one
\* DroidCam process is running.
C20_AtMostOneLiveEach ==
  /\ Cardinality(Live("scrcpy")) <= 1
  /\ Cardinality(Live("droidcam")) <= 1


\* C22 as stated: the status label names the handles held: "Ready" with
\* none, "Scrcpy is running" with that of scrcpy alone, "DroidCam is running"
\* with that of DroidCam alone, "Both ..." with both.
C22_StatusNamesHandles ==
  ui.status_label =
    CASE ui.scrcpy_process = None /\ ui.droidcam_process = None
           -> "Ready to launch applications"
      [] ui.scrcpy_process # None /\ ui.droidcam_process = None
           -> "Scrcpy is running..."
      [] ui.scrcpy_process = None /\ ui.droidcam_process # None
           -> "DroidCam is running..."
      [] OTHER -> "Both Scrcpy and DroidCam are running"

\* C23 as stated: for each tool the start button is enabled exactly when no
\* handle is held and the stop button exactly when one is held.
C23_ButtonsFollowHandles ==
  /\ ui.scrcpy_start_button <=> ui.scrcpy_process = None
  /\ ui.scrcpy_stop_button <=> ui.scrcpy_process # None
  /\ ui.droidcam_start_button <=> ui.droidcam_process = None
  /\ ui.droidcam_stop_button <=> ui.droidcam_process # None

\* C26 as stated: when closeEvent has completed the close is accepted, no
\* handle is held, and no scrcpy or DroidCam process is left running that was
\* not asked to terminate.
C26_CloseStopsProcesses ==
  ui.close_accepted =>
    /\ ui.scrcpy_process = None
    /\ ui.droidcam_process = None
    /\ \A p \in 1..Len(qprocesses) : qprocesses[p].state # "Running"

(***************************************************************************)
(* Properties of the window as a whole.                                    *)
(***************************************************************************)
\* the window takes a signal of the detector thread in this step
TakesSignal == Len(ip_signals') < Len(ip_signals)

\* the tokens of a command
TokensOf(cmd) == { cmd[i] : i \in 1..Len(cmd) }

\* C21: when the window takes ip_found(address) the TCP/IP address field
\* becomes "<address>:5555" and every other option widget keeps its value, so
\* the command composed next holds "--tcpip=<address>:5555" exactly when the
\* TCP/IP check box was and is ticked; when it takes an error signal no option
\* widget and no composed command changes.
C21_Step ==
  TakesSignal =>
    LET signal == Head(ip_signals)
        flag == "--tcpip=" \o signal.arg \o ":5555"
    IN  IF signal.name = "ip_found"
          THEN /\ widgets' = [ widgets EXCEPT !.scrcpy_tcpip_address =
                                 signal.arg \o ":5555" ]
               /\ widgets'.scrcpy_tcpip = widgets.scrcpy_tcpip
               /\ flag \in TokensOf(get_scrcpy_command(widgets'))
                    <=> widgets.scrcpy_tcpip
               /\ command' = get_scrcpy_command(widgets')
          ELSE /\ widgets' = widgets
               /\ command' = command
               /\ scrcpy_command_label' = scrcpy_command_label

C21_AddressFedBack == [][C21_Step]_vars

\* an address was detected with the TCP/IP check box ticked: the composed
\* command holds the flag with the detected address
C21_Witness ==
  /\ ui.ip_label = "Phone IP: 192.168.1.55"
  /\ ip_signals = << >>
  /\ widgets.scrcpy_tcpip
  /\ widgets.scrcpy_tcpip_address = "192.168.1.55:5555"
  /\ "--tcpip=192.168.1.55:5555" \in TokensOf(command)

\* a scrcpy process is spawned in this step: the newest QProcess
Spawned ==
  IF /\ ui'.scrcpy_process # None
     /\ ui'.scrcpy_process # ui.scrcpy_process \/ qprocesses' # qprocesses
     /\ ui'.scrcpy_process \in 1..Len(qprocesses')
     /\ qprocesses'[ui'.scrcpy_process].tool = "scrcpy"
     /\ qprocesses'[ui'.scrcpy_process].state = "Running"
     /\ ~ ui.scrcpy_stop_button
    THEN { qprocesses'[ui'.scrcpy_process] }
    ELSE { }

\* C24: at all times the command label shows "Command: " and the composed
\* command of the option widgets as they are, joined by single blanks; a
\* scrcpy process is spawned with the program and the arguments the label
\* shows at that moment.
C24_State ==
  scrcpy_command_label = "Command: " \o join(get_scrcpy_command(widgets))

C24_Step ==
  \A process \in Spawned :
    /\ << process.program >> \o process.arguments = command
    /\ "Command: " \o join(<< process.program >> \o process.arguments)
         = scrcpy_command_label

C24_PreviewInSync == [][C24_Step]_vars /\ []C24_State

\* scrcpy runs with the address phone-IP detection wrote, as the label shows
C24_Witness ==
  /\ ui.scrcpy_process # None
  /\ widgets.scrcpy_tcpip
  /\ ui.ip_label = "Phone IP: 192.168.1.55"
  /\ qprocesses[ui.scrcpy_process].arguments
       = << "--tcpip=192.168.1.55:5555", "-M", "-K" >>
  /\ scrcpy_command_label = "Command: scrcpy --tcpip=192.168.1.55:5555 -M -K"

=============================================================================
